---- MODULE Spec2Model ----
(***************************************************************************)
(* Lead-generation site: the browser form handler (site/app.js) and the    *)
(* lead intake handler it posts to.                                        *)
(*                                                                         *)
(* Text values the code takes apart (form fields, the configured URL) are  *)
(* sequences of one-character strings; texts the code only passes around   *)
(* (messages, reason phrases) are plain strings.                           *)
(***************************************************************************)
EXTENDS Integers, Sequences, FiniteSets, TLC

VARIABLES
    pc,            \* position of the DOMContentLoaded listener
    yearShown,     \* #year has been filled in
    cfgReply,      \* what the fetch of ./config.json produced so far
    API_BASE_URL,  \* the module-level variable of app.js
    search,        \* location.search, as a map from parameter to value
    form,          \* #lead-form field values
    slots,         \* text of the four .error[data-for] nodes
    btn,           \* #submit-btn: disabled flag and "loading" class
    alerts,        \* #success and #failure: hidden flag and text
    reqs,          \* the lead POSTs issued by postJSON, in order
    nSubmit,       \* number of submit events handled so far
    console,       \* the last console.info / console.error entry
    hpc,           \* lead intake handler: position in the current run
    hreq,          \* lead intake handler: the request of the current run
    hrun,          \* lead intake handler: what the current run has done
    store,         \* lead intake handler: the records in the table
    mail,          \* lead intake handler: notification attempts, in order
    nRuns          \* lead intake handler: number of runs started

vars == <<pc, yearShown, cfgReply, API_BASE_URL, search, form, slots, btn,
          alerts, reqs, nSubmit, console, hpc, hreq, hrun, store, mail, nRuns>>

clientVars == <<pc, yearShown, cfgReply, API_BASE_URL, search, form, slots,
                btn, alerts, reqs, nSubmit, console>>

handlerVars == <<hpc, hreq, hrun, store, mail, nRuns>>

----------------------------------------------------------------------------
(* Bounds *)

MaxSubmits == 2      \* submit events per page
MaxEmailLen == 5     \* longest email typed (validation inputs)
MaxRuns == 2         \* runs of the lead intake handler

(* Program constants *)

MinNameLen == 2
MinMessageLen == 10

----------------------------------------------------------------------------
(* Text helpers *)

IsSpace(c) == c = " "

RECURSIVE TrimStart(_)
TrimStart(s) ==
    IF s = <<>> THEN s
    ELSE IF IsSpace(Head(s)) THEN TrimStart(Tail(s)) ELSE s

RECURSIVE TrimEnd(_)
TrimEnd(s) ==
    IF s = <<>> THEN s
    ELSE IF IsSpace(s[Len(s)]) THEN TrimEnd(SubSeq(s, 1, Len(s) - 1)) ELSE s

\* String.prototype.trim
trim(s) == TrimEnd(TrimStart(s))

\* s.replace(/\/$/, ""): drops one trailing slash
stripSlash(s) ==
    IF s # <<>> /\ s[Len(s)] = "/" THEN SubSeq(s, 1, Len(s) - 1) ELSE s

RECURSIVE Rep(_, _)
Rep(c, n) == IF n = 0 THEN <<>> ELSE <<c>> \o Rep(c, n - 1)

\* [^\s@]+ matched against a whole piece
NoSpaceNoAt(s) == s # <<>> /\ \A k \in 1..Len(s) : ~IsSpace(s[k]) /\ s[k] # "@"

\* /^[^\s@]+@[^\s@]+\.[^\s@]+$/.test(s): some split of s matches the pattern
emailPattern(s) ==
    \E i \in 1..Len(s) : \E j \in 1..Len(s) :
        /\ i < j
        /\ s[i] = "@"
        /\ s[j] = "."
        /\ NoSpaceNoAt(SubSeq(s, 1, i - 1))
        /\ NoSpaceNoAt(SubSeq(s, i + 1, j - 1))
        /\ NoSpaceNoAt(SubSeq(s, j + 1, Len(s)))

----------------------------------------------------------------------------
(* Runtime configuration *)

NullUrl == [set |-> FALSE, v |-> <<>>]
Url(s) == [set |-> TRUE, v |-> s]

\* the values ./config.json can carry under the key API_BASE_URL
CfgValue(t, s) == [t |-> t, s |-> s]

CfgBodies ==
    { CfgValue("malformed", <<>>),              \* body is not JSON
      CfgValue("missing", <<>>),                \* no API_BASE_URL key
      CfgValue("number", <<>>),                 \* API_BASE_URL is not a string
      CfgValue("string", <<>>),                 \* ""
      CfgValue("string", <<" ">>),              \* blank
      CfgValue("string", <<"/">>),
      CfgValue("string", <<"h">>),
      CfgValue("string", <<" ", "h", "/", " ">>),
      CfgValue("string", <<"h", "/">>) }

NoCfgBody == CfgValue("none", <<>>)

\* loadConfig, lines 11-14: the value API_BASE_URL has after a body was read
configFromBody(u, b) ==
    IF b.t = "string" /\ trim(b.s) # <<>>
    THEN Url(stripSlash(trim(b.s)))
    ELSE u

\* !API_BASE_URL
NotConfigured_open(u) == FALSE
NotConfigured(u) == ~u.set \/ u.v = <<>>

----------------------------------------------------------------------------
(* Form, validation, error slots *)

Fields == {"name", "email", "message", "consent"}

MsgName == "Please enter your full name."
MsgEmail == "Please enter a valid email."
MsgMessage == "Please provide a few more details."
MsgConsent == "You must consent to be contacted."

Form(n, e, m, c) == [name |-> n, email |-> e, message |-> m, consent |-> c]

EmptyForm == Form(<<>>, <<>>, <<>>, FALSE)

\* validate: all checks made, the first failing one alone reported
validate_first(f) ==
    LET name == trim(f.name)
        email == trim(f.email)
        message == trim(f.message)
        bad == { k \in Fields :
                   \/ k = "name" /\ Len(name) < MinNameLen
                   \/ k = "email" /\ ~emailPattern(email)
                   \/ k = "message" /\ Len(message) < MinMessageLen
                   \/ k = "consent" /\ ~f.consent }
        first == IF "name" \in bad THEN {"name"}
                 ELSE IF "email" \in bad THEN {"email"}
                 ELSE IF "message" \in bad THEN {"message"}
                 ELSE bad
        text == [k \in Fields |->
                   CASE k = "name" -> MsgName
                     [] k = "email" -> MsgEmail
                     [] k = "message" -> MsgMessage
                     [] k = "consent" -> MsgConsent]
    IN  [ok |-> first = {},
         errors |-> [k \in first |-> text[k]],
         data |-> [name |-> name, email |-> email, message |-> message]]

validate(f) ==
    LET name == trim(f.name)
        email == trim(f.email)
        message == trim(f.message)
        consent == f.consent
        e0 == <<>>
        e1 == IF Len(name) < MinNameLen THEN e0 @@ ("name" :> MsgName) ELSE e0
        emailOk == emailPattern(email)
        e2 == IF ~emailOk THEN e1 @@ ("email" :> MsgEmail) ELSE e1
        e3 == IF Len(message) < MinMessageLen
              THEN e2 @@ ("message" :> MsgMessage) ELSE e2
        errors == IF ~consent THEN e3 @@ ("consent" :> MsgConsent) ELSE e3
    IN  [ok |-> DOMAIN errors = {},
         errors |-> errors,
         data |-> [name |-> name, email |-> email, message |-> message]]

NoErrors == <<>>

\* showErrors: every slot is written, "" where the field has no error
showErrors(errors) ==
    [k \in Fields |-> IF k \in DOMAIN errors THEN errors[k] ELSE ""]

\* line 130: the listener goes on to send only when validation passed
ShouldSend_always(v) == TRUE
ShouldSend(v) == v.ok

----------------------------------------------------------------------------
(* Button and banners *)

setLoading_classOnly(b, loading) == [b EXCEPT !.loading = loading]
setLoading(b, loading) == [disabled |-> loading, loading |-> loading]

NoText == ""
MarkupText == "(markup)"
CfgText == "Form not configured yet. Please try again later."
ErrText == "Something went wrong. Please try again in a moment."

showAlert_flag(a, type, visible, customText) ==
    LET id == IF type = "success" THEN "success" ELSE "failure"
        other == IF id = "success" THEN "failure" ELSE "success"
        a1 == IF customText # NoText THEN [a EXCEPT ![id].text = customText]
              ELSE a
    IN  [a1 EXCEPT ![id].hidden = visible, ![other].hidden = TRUE]

showAlert(a, type, visible, customText) ==
    LET id == IF type = "success" THEN "success" ELSE "failure"
        other == IF id = "success" THEN "failure" ELSE "success"
        a1 == IF customText # NoText THEN [a EXCEPT ![id].text = customText]
              ELSE a
    IN  [a1 EXCEPT ![id].hidden = ~visible, ![other].hidden = TRUE]

----------------------------------------------------------------------------
(* Payload *)

UtmKeys == {"utm_source", "utm_medium", "utm_campaign", "utm_term",
            "utm_content"}

\* parseUTM: the recognised keys whose value is present and non-empty
parseUTM(q) ==
    [k \in {x \in UtmKeys \cap DOMAIN q : q[x] # ""} |-> q[k]]

\* buildPayload (userAgent, referer and ts are plain reads of the environment
\* and are left out)
buildPayload(f, q) ==
    LET data == validate(f).data
    IN  [name |-> data.name, email |-> data.email, message |-> data.message,
         utm |-> parseUTM(q)]

NoPayload == [name |-> <<>>, email |-> <<>>, message |-> <<>>, utm |-> <<>>]

----------------------------------------------------------------------------
(* Responses to the lead POST *)

Field(t, s, n) == [t |-> t, s |-> s, n |-> n]
Absent == Field("absent", "", 0)

\* a response body as res.json() / res.text() hands it over
Body(t, msg) == [t |-> t, msg |-> msg]
NoBody == Body("none", Absent)

JsonBodies ==
    { Body("malformed", Absent),                        \* res.json() throws
      Body("null", Absent),                             \* null
      Body("string", Absent),                           \* "..."
      Body("object", Absent),                           \* {}
      Body("object", Field("string", "", 0)),           \* {"message": ""}
      Body("object", Field("string", "Invalid email", 0)),
      Body("object", Field("number", "", 7)) }          \* {"message": 7}

TextBodies == { Body("text", Absent) }

StatusTexts == {"", "Bad Request"}

Reply(ok, isJson, statusText, body) ==
    [sent |-> TRUE, ok |-> ok, isJson |-> isJson, statusText |-> statusText,
     body |-> body]

NoReply ==
    [sent |-> FALSE, ok |-> FALSE, isJson |-> FALSE, statusText |-> "",
     body |-> NoBody]

Replies ==
    { Reply(ok, isJson, st, b) :
        ok \in BOOLEAN, isJson \in {TRUE}, st \in StatusTexts, b \in JsonBodies }
    \cup
    { Reply(ok, isJson, st, b) :
        ok \in BOOLEAN, isJson \in {FALSE}, st \in StatusTexts, b \in TextBodies }

\* String(n) for the numbers a message field carries here
NumStr(n) ==
    CASE n = 0 -> "0" [] n = 1 -> "1" [] n = 2 -> "2" [] n = 3 -> "3"
      [] n = 4 -> "4" [] n = 5 -> "5" [] n = 6 -> "6" [] n = 7 -> "7"
      [] n = 8 -> "8" [] n = 9 -> "9"

\* truthiness of payload?.message
Truthy(m) ==
    \/ m.t = "string" /\ m.s # ""
    \/ m.t = "number" /\ m.n # 0

\* the message of new Error(x)
ErrorText(m) == IF m.t = "number" THEN NumStr(m.n) ELSE m.s

\* typeof payload === "object"
IsObject(b) == b.t \in {"object", "null"}

\* lines 94-95 without the "Request failed" fallback
errorMessage_nofallback(res, payload) ==
    IF IsObject(payload) /\ Truthy(payload.msg)
    THEN ErrorText(payload.msg)
    ELSE res.statusText

\* lines 94-95: the message of the Error thrown for a non-success status
errorMessage(res, payload) ==
    LET errMsg == IF IsObject(payload) /\ Truthy(payload.msg)
                  THEN ErrorText(payload.msg)
                  ELSE res.statusText
    IN  IF errMsg # "" THEN errMsg ELSE "Request failed"

FetchFailedText == "TypeError: Failed to fetch"
AbortedText == "AbortError: The operation was aborted."
SyntaxErrorText == "SyntaxError: Unexpected token"

----------------------------------------------------------------------------
(* Requests *)

Request(url, body) ==
    [phase |-> "waiting", timer |-> TRUE, url |-> url, body |-> body,
     reply |-> NoReply, result |-> "pending"]

\* a request postJSON is done with: nothing of it is kept but how it ended
Settled(result) ==
    [phase |-> "settled", timer |-> FALSE, url |-> <<>>, body |-> NoPayload,
     reply |-> NoReply, result |-> result]

InFlight(i) == reqs[i].phase \in {"waiting", "reading"}

Info(b) == [level |-> "info", msg |-> "", value |-> b]
Error(m) == [level |-> "error", msg |-> m, value |-> NoBody]
NoLog == [level |-> "none", msg |-> "", value |-> NoBody]

----------------------------------------------------------------------------
(* Inputs of the page *)

A10 == Rep("a", MinMessageLen)

Drafts ==
    { EmptyForm,
      Form(<<"a", "a">>, <<"a", "@", "a", ".", "a">>, A10, TRUE),
      Form(<<" ", "a", "a">>, <<"a", "@", "a", ".", "a", " ">>,
           <<" ">> \o A10, TRUE),
      Form(<<"a", "a">>, <<"a", "@", "a", ".", "a">>, A10, FALSE),
      Form(<<"a", " ">>, <<"a", "@", "a">>, A10, TRUE),
      Form(<<"a", "a">>, <<"a", "@", "a", ".", "a">>,
           <<" ">> \o Rep("a", MinMessageLen - 1), TRUE) }

Searches ==
    { <<>>,
      ("utm_source" :> "linkedin") @@ ("utm_medium" :> "") @@ ("ref" :> "x") }

----------------------------------------------------------------------------
(* Page load *)

\* the nodes as the page's markup has them: error slots empty, the button
\* usable, both banners hidden
MarkupInit ==
    /\ slots = [k \in Fields |-> ""]
    /\ btn = [disabled |-> FALSE, loading |-> FALSE]
    /\ alerts = [success |-> [hidden |-> TRUE, text |-> MarkupText],
                 failure |-> [hidden |-> TRUE, text |-> MarkupText]]

ClientInit ==
    /\ pc = "start"
    /\ yearShown = FALSE
    /\ cfgReply = [fetch |-> "pending", body |-> NoCfgBody]
    /\ API_BASE_URL = NullUrl
    /\ search \in Searches
    /\ form = EmptyForm
    /\ MarkupInit
    /\ reqs = <<>>
    /\ nSubmit = 0
    /\ console = NoLog

HandlerIdle ==
    /\ hpc = "idle"
    /\ hreq = [kind |-> "none", name |-> <<>>, email |-> <<>>, message |-> <<>>]
    /\ hrun = [id |-> 0, status |-> 0, wrote |-> FALSE, storeFailed |-> FALSE,
               mails |-> 0]
    /\ store = {}
    /\ mail = <<>>
    /\ nRuns = 0

Init == ClientInit /\ HandlerIdle

\* lines 108-110: initYear, then loadConfig up to its first await
DOMContentLoaded ==
    /\ pc = "start"
    /\ yearShown' = TRUE
    /\ pc' = "config_fetch"
    /\ UNCHANGED <<cfgReply, API_BASE_URL, search, form, slots, btn, alerts,
                   reqs, nSubmit, console>>
    /\ UNCHANGED handlerVars

\* lines 112-121: the listener once loadConfig has returned with u in
\* API_BASE_URL; the two listeners are registered only when it is usable
AfterLoadConfig(u) ==
    IF NotConfigured(u)
    THEN /\ btn' = [btn EXCEPT !.disabled = TRUE]
         /\ alerts' = showAlert(alerts, "error", TRUE, CfgText)
         /\ pc' = "unconfigured"
    ELSE /\ pc' = "ready"
         /\ UNCHANGED <<btn, alerts>>

\* line 9 throws: the catch leaves API_BASE_URL alone
ConfigFetchFails ==
    /\ pc = "config_fetch"
    /\ cfgReply' = [fetch |-> "throws", body |-> NoCfgBody]
    /\ AfterLoadConfig(API_BASE_URL)
    /\ UNCHANGED <<yearShown, API_BASE_URL, search, form, slots, reqs, nSubmit,
                   console>>
    /\ UNCHANGED handlerVars

\* line 9 resolves; line 10 returns when the status is not a success
ConfigFetchResolves(ok) ==
    /\ pc = "config_fetch"
    /\ IF ok
       THEN /\ cfgReply' = [fetch |-> "ok", body |-> NoCfgBody]
            /\ pc' = "config_json"
            /\ UNCHANGED <<btn, alerts>>
       ELSE /\ cfgReply' = [fetch |-> "not_ok", body |-> NoCfgBody]
            /\ AfterLoadConfig(API_BASE_URL)
    /\ UNCHANGED <<yearShown, API_BASE_URL, search, form, slots, reqs, nSubmit,
                   console>>
    /\ UNCHANGED handlerVars

\* lines 11-17: res.json() settles (a malformed body throws into the catch)
ConfigBodyRead(b) ==
    /\ pc = "config_json"
    /\ cfgReply' = [cfgReply EXCEPT !.body = b]
    /\ API_BASE_URL' = configFromBody(API_BASE_URL, b)
    /\ AfterLoadConfig(configFromBody(API_BASE_URL, b))
    /\ UNCHANGED <<yearShown, search, form, slots, reqs, nSubmit, console>>
    /\ UNCHANGED handlerVars

----------------------------------------------------------------------------
(* The user *)

\* the user types into the form
Edit(f) ==
    /\ f # form
    /\ form' = f
    /\ UNCHANGED <<pc, yearShown, cfgReply, API_BASE_URL, search, slots, btn,
                   alerts, reqs, nSubmit, console>>
    /\ UNCHANGED handlerVars

\* a disabled submit control starts no submission of its form
SubmitControlUsable == ~btn.disabled

LeadPath == <<"/", "l", "e", "a", "d">>

\* lines 123-135: the submit listener up to the await of postJSON, which
\* itself runs up to the await of fetch (lines 80-89)
SubmitEvent ==
    /\ pc = "ready"
    /\ SubmitControlUsable
    /\ nSubmit < MaxSubmits
    /\ nSubmit' = nSubmit + 1
    /\ LET a1 == showAlert(alerts, "success", FALSE, NoText)
           a2 == showAlert(a1, "error", FALSE, NoText)
           v == validate(form)
       IN  /\ alerts' = a2
           /\ slots' = showErrors(v.errors)
           /\ IF ShouldSend(v)
              THEN /\ btn' = setLoading(btn, TRUE)
                   /\ reqs' = Append(reqs, Request(API_BASE_URL.v \o LeadPath,
                                                   buildPayload(form, search)))
              ELSE UNCHANGED <<btn, reqs>>
    /\ UNCHANGED <<pc, yearShown, cfgReply, API_BASE_URL, search, form, console>>
    /\ UNCHANGED handlerVars

\* lines 147-151
ResetClick ==
    /\ pc = "ready"
    /\ slots' = showErrors(NoErrors)
    /\ alerts' = showAlert(showAlert(alerts, "success", FALSE, NoText),
                           "error", FALSE, NoText)
    /\ UNCHANGED <<pc, yearShown, cfgReply, API_BASE_URL, search, form, btn,
                   reqs, nSubmit, console>>
    /\ UNCHANGED handlerVars

----------------------------------------------------------------------------
(* The lead POST *)

\* lines 136-138, 142-144: postJSON resolved for request i
HandlerThen(i, payload) ==
    /\ console' = Info(payload)
    /\ alerts' = showAlert(alerts, "success", TRUE, NoText)
    /\ form' = EmptyForm
    /\ btn' = setLoading(btn, FALSE)
    /\ reqs' = [reqs EXCEPT ![i] = Settled("ok")]
    /\ UNCHANGED <<pc, yearShown, cfgReply, API_BASE_URL, search, slots, nSubmit>>
    /\ UNCHANGED handlerVars

HandlerCatch_nofinally(i, cause, msg) ==
    /\ console' = Error(msg)
    /\ alerts' = showAlert(alerts, "error", TRUE, ErrText)
    /\ reqs' = [reqs EXCEPT ![i] = Settled(cause)]
    /\ UNCHANGED <<pc, yearShown, cfgReply, API_BASE_URL, search, form, slots,
                   btn, nSubmit>>
    /\ UNCHANGED handlerVars

HandlerCatch_resets(i, cause, msg) ==
    /\ console' = Error(msg)
    /\ alerts' = showAlert(alerts, "error", TRUE, ErrText)
    /\ form' = EmptyForm
    /\ btn' = setLoading(btn, FALSE)
    /\ reqs' = [reqs EXCEPT ![i] = Settled(cause)]
    /\ UNCHANGED <<pc, yearShown, cfgReply, API_BASE_URL, search, slots, nSubmit>>
    /\ UNCHANGED handlerVars

\* lines 98-100, 139-144: postJSON rejected for request i
HandlerCatch(i, cause, msg) ==
    /\ console' = Error(msg)
    /\ alerts' = showAlert(alerts, "error", TRUE, ErrText)
    /\ btn' = setLoading(btn, FALSE)
    /\ reqs' = [reqs EXCEPT ![i] = Settled(cause)]
    /\ UNCHANGED <<pc, yearShown, cfgReply, API_BASE_URL, search, form, slots,
                   nSubmit>>
    /\ UNCHANGED handlerVars

\* the endpoint (or the gateway in front of it) answers request i
ServerResponds(i, r) ==
    /\ reqs[i].phase = "waiting"
    /\ ~reqs[i].reply.sent
    /\ reqs' = [reqs EXCEPT ![i].reply = r]
    /\ UNCHANGED <<pc, yearShown, cfgReply, API_BASE_URL, search, form, slots,
                   btn, alerts, nSubmit, console>>
    /\ UNCHANGED handlerVars

\* lines 83-92: fetch resolves with the response's head; the timer is
\* cleared and the body is awaited
FetchResolves(i) ==
    /\ reqs[i].phase = "waiting"
    /\ reqs[i].reply.sent
    /\ reqs' = [reqs EXCEPT ![i].timer = FALSE, ![i].phase = "reading"]
    /\ UNCHANGED <<pc, yearShown, cfgReply, API_BASE_URL, search, form, slots,
                   btn, alerts, nSubmit, console>>
    /\ UNCHANGED handlerVars

\* fetch rejects: the network failed
FetchRejects(i) ==
    /\ reqs[i].phase = "waiting"
    /\ HandlerCatch(i, "network", FetchFailedText)

\* line 81: the timer fires, ctrl.abort() makes the pending fetch reject
TimeoutFires(i) ==
    /\ reqs[i].timer
    /\ HandlerCatch(i, "timeout", AbortedText)

\* lines 92-97: the body has been read and parsed
BodyResolves(i) ==
    /\ reqs[i].phase = "reading"
    /\ reqs[i].reply.body.t # "malformed"
    /\ IF ~reqs[i].reply.ok
       THEN HandlerCatch(i, "http",
                         errorMessage(reqs[i].reply, reqs[i].reply.body))
       ELSE HandlerThen(i, reqs[i].reply.body)

\* line 92: res.json() rejects on a body that is not JSON
BodyParseFails(i) ==
    /\ reqs[i].phase = "reading"
    /\ reqs[i].reply.body.t = "malformed"
    /\ HandlerCatch(i, "parse", SyntaxErrorText)

\* line 92: the connection fails while the body is read
BodyReadFails(i) ==
    /\ reqs[i].phase = "reading"
    /\ HandlerCatch(i, "network", FetchFailedText)

ClientNext ==
    \/ DOMContentLoaded
    \/ ConfigFetchFails
    \/ \E ok \in BOOLEAN : ConfigFetchResolves(ok)
    \/ \E b \in CfgBodies : ConfigBodyRead(b)
    \/ \E f \in Drafts : Edit(f)
    \/ SubmitEvent
    \/ ResetClick
    \/ \E i \in DOMAIN reqs : \E r \in Replies : ServerResponds(i, r)
    \/ \E i \in DOMAIN reqs : FetchResolves(i)
    \/ \E i \in DOMAIN reqs : FetchRejects(i)
    \/ \E i \in DOMAIN reqs : TimeoutFires(i)
    \/ \E i \in DOMAIN reqs : BodyResolves(i)
    \/ \E i \in DOMAIN reqs : BodyParseFails(i)
    \/ \E i \in DOMAIN reqs : BodyReadFails(i)

Next == ClientNext

Spec == Init /\ [][Next]_vars

\* a timer that stays armed fires
FairSpec == Spec /\ WF_vars(\E i \in DOMAIN reqs : TimeoutFires(i))

----------------------------------------------------------------------------
(* Validation over typed input: the page is ready, earlier submissions     *)
(* were rejected and their errors cleared with the reset button, and the   *)
(* user has typed any of the bounded texts into the form                   *)

SeqsUpTo(A, n) == UNION { [1..k -> A] : k \in 0..n }

Names ==
    { <<>>, <<"a">>, <<" ", "a">>, <<"a", " ">>, <<"a", "a">>,
      <<"a", " ", "a">>, <<" ", "a", "a", " ">> }

Emails == SeqsUpTo({"a", "@", ".", " "}, MaxEmailLen)

Messages ==
    { Rep("a", MinMessageLen - 1),
      <<" ">> \o Rep("a", MinMessageLen - 1) \o <<" ">>,
      Rep("a", MinMessageLen),
      <<" ">> \o Rep("a", MinMessageLen - 2) \o <<" ">> \o <<"a">> }

TypedForms ==
    [name : Names, email : Emails, message : Messages, consent : BOOLEAN]

ReadyInit ==
    /\ pc = "ready"
    /\ yearShown = TRUE
    /\ cfgReply = [fetch |-> "ok", body |-> CfgValue("string", <<"h", "/">>)]
    /\ API_BASE_URL = Url(<<"h">>)
    /\ search = <<>>
    /\ form \in TypedForms
    /\ MarkupInit
    /\ reqs = <<>>
    /\ nSubmit = MaxSubmits - 1
    /\ console = NoLog

ValidateInit == ReadyInit /\ HandlerIdle

ValidateNext == SubmitEvent

ValidateSpec == ValidateInit /\ [][ValidateNext]_vars

----------------------------------------------------------------------------
(* Lead intake handler (POST /lead) *)

HReq(kind, n, e, m) == [kind |-> kind, name |-> n, email |-> e, message |-> m]

HandlerRequests ==
    { HReq("missing", <<>>, <<>>, <<>>),           \* no body
      HReq("not_json", <<>>, <<>>, <<>>) }         \* body is not JSON
    \cup
    { HReq("json", n, e, m) :
        n \in { <<"a">>, <<" ", "a", "a">> },
        e \in { <<"a", "@", "a">>, <<"a", "@", "a", ".", "a">> },
        m \in { Rep("a", MinMessageLen - 1), A10 \o <<" ">> } }

\* step 1 accepts a request that rejects nothing but an unreadable body
hValid_bodyOnly(r) == r.kind = "json"

\* step 1: the body parses and the fields pass the rules of the form
hValid(r) ==
    /\ r.kind = "json"
    /\ Len(trim(r.name)) >= MinNameLen
    /\ emailPattern(trim(r.email))
    /\ Len(trim(r.message)) >= MinMessageLen

Record(id, r) ==
    [id |-> id, name |-> trim(r.name), email |-> trim(r.email),
     message |-> trim(r.message)]

NewRun(id) ==
    [id |-> id, status |-> 0, wrote |-> FALSE, storeFailed |-> FALSE,
     mails |-> 0]

\* steps 1-3: a request arrives, is parsed and validated, and gets its id
HandlerReceive(r) ==
    /\ hpc = "idle"
    /\ nRuns < MaxRuns
    /\ nRuns' = nRuns + 1
    /\ hreq' = r
    /\ IF hValid(r)
       THEN /\ hrun' = NewRun(nRuns + 1)
            /\ hpc' = "write"
       ELSE /\ hrun' = [NewRun(0) EXCEPT !.status = 400]
            /\ hpc' = "responded"
    /\ UNCHANGED <<store, mail>>
    /\ UNCHANGED clientVars

\* step 4: the record is written
HandlerStoreWrite ==
    /\ hpc = "write"
    /\ store' = store \cup {Record(hrun.id, hreq)}
    /\ hrun' = [hrun EXCEPT !.wrote = TRUE]
    /\ hpc' = "notify_submitter"
    /\ UNCHANGED <<hreq, mail, nRuns>>
    /\ UNCHANGED clientVars

\* step 4: the write fails, the run ends with a server error
HandlerStoreFails ==
    /\ hpc = "write"
    /\ hrun' = [hrun EXCEPT !.storeFailed = TRUE, !.status = 500]
    /\ hpc' = "responded"
    /\ UNCHANGED <<hreq, store, mail, nRuns>>
    /\ UNCHANGED clientVars

\* step 5: one notification is attempted; a failure is only logged
HandlerNotify(to, sent) ==
    /\ \/ to = "submitter" /\ hpc = "notify_submitter"
       \/ to = "owner" /\ hpc = "notify_owner"
    /\ mail' = Append(mail, [id |-> hrun.id, to |-> to, sent |-> sent])
    /\ hrun' = [hrun EXCEPT !.mails = @ + 1]
    /\ hpc' = IF to = "submitter" THEN "notify_owner" ELSE "respond"
    /\ UNCHANGED <<hreq, store, nRuns>>
    /\ UNCHANGED clientVars

\* step 6: success, the body carries the id
HandlerRespond ==
    /\ hpc = "respond"
    /\ hrun' = [hrun EXCEPT !.status = 200]
    /\ hpc' = "responded"
    /\ UNCHANGED <<hreq, store, mail, nRuns>>
    /\ UNCHANGED clientVars

\* the run is over; the next request starts a new one
HandlerReturn ==
    /\ hpc = "responded"
    /\ hpc' = "idle"
    /\ UNCHANGED <<hreq, hrun, store, mail, nRuns>>
    /\ UNCHANGED clientVars

HandlerNext ==
    \/ \E r \in HandlerRequests : HandlerReceive(r)
    \/ HandlerStoreWrite
    \/ HandlerStoreFails
    \/ \E to \in {"submitter", "owner"} : \E sent \in BOOLEAN :
          HandlerNotify(to, sent)
    \/ HandlerRespond
    \/ HandlerReturn

HandlerSpec == Init /\ [][HandlerNext]_vars

----------------------------------------------------------------------------
(* The four checks of the form, stated on what the user typed *)

Trimmed(s) ==
    LET keep == { k \in 1..Len(s) : s[k] # " " }
    IN  IF keep = {} THEN <<>>
        ELSE LET lo == CHOOSE k \in keep : \A m \in keep : k <= m
                 hi == CHOOSE k \in keep : \A m \in keep : k >= m
             IN  [k \in 1..(hi - lo + 1) |-> s[lo + k - 1]]

\* local@domain.tld: no blank, one "@" that is not first, and after it a "."
\* with at least one character on each side
EmailShape(s) ==
    LET ats == { k \in 1..Len(s) : s[k] = "@" }
    IN  /\ Cardinality(ats) = 1
        /\ \A k \in 1..Len(s) : s[k] # " "
        /\ \A a \in ats :
              /\ a > 1
              /\ \E d \in (a + 2)..(Len(s) - 1) : s[d] = "."

FailedChecks(f) ==
    { k \in Fields :
        \/ k = "name" /\ Len(Trimmed(f.name)) < 2
        \/ k = "email" /\ ~EmailShape(Trimmed(f.email))
        \/ k = "message" /\ Len(Trimmed(f.message)) < 10
        \/ k = "consent" /\ ~f.consent }

CheckText(k) ==
    CASE k = "name" -> "Please enter your full name."
      [] k = "email" -> "Please enter a valid email."
      [] k = "message" -> "Please provide a few more details."
      [] k = "consent" -> "You must consent to be contacted."

AnyInFlight == \E i \in DOMAIN reqs : InFlight(i)

\* request i settles in this step
Settles(i) == InFlight(i) /\ reqs'[i].phase = "settled"

----------------------------------------------------------------------------
(* Claims *)

\* C1: a submit event whose form fails any of the four checks issues no POST
\* and leaves the button out of the loading state; a submit event whose form
\* passes all four issues exactly one POST; no other step issues a POST, so
\* nothing is re-sent after a failure or a timeout.
C1_OnePostPerValidSubmit ==
    [][ /\ (nSubmit' = nSubmit + 1 /\ FailedChecks(form) # {})
            => (reqs' = reqs /\ ~btn'.loading)
        /\ (nSubmit' = nSubmit + 1 /\ FailedChecks(form) = {})
            => /\ Len(reqs') = Len(reqs) + 1
               /\ SubSeq(reqs', 1, Len(reqs)) = reqs
               /\ reqs'[Len(reqs')].phase = "waiting"
        /\ (nSubmit' = nSubmit) => Len(reqs') = Len(reqs) ]_vars

\* C1 witness: two submit events, one rejected by validation and one sent;
\* the sent one timed out and there is still just the one POST.
C1_Witness ==
    /\ nSubmit = 2
    /\ Len(reqs) = 1
    /\ reqs[1].result = "timeout"

\* C2: while a request is in flight the button is disabled and marked
\* loading, and the step in which the request completes, however it
\* completes, leaves the button enabled and unmarked.
C2_ButtonFollowsRequest ==
    /\ [](\A i \in DOMAIN reqs : InFlight(i) => btn.disabled /\ btn.loading)
    /\ [][\A i \in DOMAIN reqs :
             Settles(i) => ~btn'.disabled /\ ~btn'.loading]_vars

\* C2 witness: a request ended by the timeout, the button usable again.
C2_Witness ==
    /\ Len(reqs) = 1
    /\ reqs[1].result = "timeout"
    /\ ~btn.disabled
    /\ ~btn.loading

\* C3: every request postJSON starts eventually settles, whichever phase it
\* is in: a submission never stays in flight forever.
C3_EveryRequestSettles == AnyInFlight ~> ~AnyInFlight

\* C4: the success banner and the failure banner are never both visible, and
\* right after a submit event begins both are hidden.
C4_BannersExclusive ==
    /\ [](alerts.success.hidden \/ alerts.failure.hidden)
    /\ [][nSubmit' = nSubmit + 1
            => alerts'.success.hidden /\ alerts'.failure.hidden]_vars

\* C4 witness: a submission that succeeded, then one that failed; the failure
\* banner alone is visible.
C4_Witness ==
    /\ Len(reqs) = 2
    /\ reqs[1].result = "ok"
    /\ reqs[2].result = "http"
    /\ ~alerts.failure.hidden
    /\ alerts.success.hidden

\* the ways the configuration can fail to load
ConfigLoadFailed ==
    \/ cfgReply.fetch \in {"throws", "not_ok"}
    \/ /\ cfgReply.fetch = "ok"
       /\ \/ cfgReply.body.t \in {"malformed", "missing", "number"}
          \/ /\ cfgReply.body.t = "string"
             /\ \A k \in 1..Len(cfgReply.body.s) : cfgReply.body.s[k] = " "

\* C5: once loading the configuration has failed (fetch throws, status not
\* OK, body not JSON, API_BASE_URL missing, not a string or blank) the button
\* is disabled, the configuration-pending message is shown and no POST is
\* ever issued.
C5_NoConfigNoPost ==
    ConfigLoadFailed =>
        /\ btn.disabled
        /\ ~alerts.failure.hidden
        /\ alerts.failure.text = CfgText
        /\ reqs = <<>>
        /\ nSubmit = 0

\* C5 witness: a blank API_BASE_URL was served and the user has since filled
\* in a form that passes validation.
C5_Witness ==
    /\ cfgReply.fetch = "ok"
    /\ cfgReply.body = CfgValue("string", <<" ">>)
    /\ FailedChecks(form) = {}

\* C6: a submit event never changes the field values, a request that ends
\* in failure (status, network, timeout, unreadable body) leaves them as they
\* are, and a request that ends in success resets the form.
C6_FormKeptUnlessSuccess ==
    [][ /\ (nSubmit' = nSubmit + 1) => form' = form
        /\ \A i \in DOMAIN reqs :
              /\ (Settles(i) /\ reqs'[i].result # "ok") => form' = form
              /\ (Settles(i) /\ reqs'[i].result = "ok") => form' = EmptyForm ]_vars

\* C6 witness: the one request failed on its HTTP status and the form still
\* holds a draft that passes validation.
C6_Witness ==
    /\ nSubmit = 1
    /\ Len(reqs) = 1
    /\ reqs[1].result = "http"
    /\ FailedChecks(form) = {}

\* C7: validate reports an error for a field exactly when that field's check
\* fails, whatever the other fields hold, with that field's message; ok is
\* true exactly when nothing failed; and a submit event writes all four
\* slots, the message where the check failed and "" elsewhere.
C7_ChecksIndependent ==
    /\ [](LET v == validate(form)
          IN  /\ DOMAIN v.errors = FailedChecks(form)
              /\ \A k \in DOMAIN v.errors : v.errors[k] = CheckText(k)
              /\ v.ok <=> FailedChecks(form) = {})
    /\ [][nSubmit' = nSubmit + 1
            => slots' = [k \in Fields |->
                           IF k \in FailedChecks(form) THEN CheckText(k)
                           ELSE ""]]_vars

\* C7 witness: a submitted form whose name and message fail while its email
\* and consent pass; two slots carry their message, two are empty.
C7_Witness ==
    /\ nSubmit = MaxSubmits
    /\ FailedChecks(form) = {"name", "message"}
    /\ slots.name = CheckText("name")
    /\ slots.message = CheckText("message")
    /\ slots.email = ""
    /\ slots.consent = ""

\* the step in which request i settles after its body was delivered
SettlesOnBody(i) ==
    /\ reqs[i].phase = "reading"
    /\ reqs'[i].phase = "settled"
    /\ reqs'[i].result # "network"

\* C8 as stated: a payload is returned only for a success status; a
\* non-success status rejects with the JSON body's message field when the
\* body is JSON and has one, and with the reason phrase otherwise; the
\* failure banner is then visible and the success banner hidden.
C8_Original ==
    [][\A i \in DOMAIN reqs : SettlesOnBody(i) =>
         LET r == reqs[i].reply
         IN  /\ reqs'[i].result = "ok" => r.ok
             /\ ~r.ok =>
                  /\ reqs'[i].result # "ok"
                  /\ console'.level = "error"
                  /\ console'.msg =
                       IF r.isJson /\ r.body.t = "object"
                          /\ r.body.msg.t # "absent"
                       THEN (IF r.body.msg.t = "number"
                             THEN NumStr(r.body.msg.n) ELSE r.body.msg.s)
                       ELSE r.statusText
                  /\ ~alerts'.failure.hidden
                  /\ alerts'.success.hidden]_vars

\* C8 amended: a payload is returned only for a success status; a body
\* announced as JSON that does not parse rejects with the parse error; any
\* other non-success response rejects with the text of the body's message
\* field when the body is a JSON object and that field is neither absent,
\* empty nor zero, otherwise with the reason phrase when that is not empty,
\* and otherwise with "Request failed"; the failure banner is then visible
\* and the success banner hidden.
C8_Amended ==
    [][\A i \in DOMAIN reqs : SettlesOnBody(i) =>
         LET r == reqs[i].reply
             m == r.body.msg
             usable == /\ r.body.t = "object"
                       /\ \/ m.t = "string" /\ m.s # ""
                          \/ m.t = "number" /\ m.n # 0
         IN  /\ reqs'[i].result = "ok" => r.ok
             /\ r.body.t = "malformed" =>
                  /\ reqs'[i].result = "parse"
                  /\ console'.level = "error"
                  /\ console'.msg = SyntaxErrorText
             /\ (~r.ok /\ r.body.t # "malformed") =>
                  /\ reqs'[i].result = "http"
                  /\ console'.level = "error"
                  /\ console'.msg =
                       IF usable
                       THEN (IF m.t = "number" THEN NumStr(m.n) ELSE m.s)
                       ELSE IF r.statusText # "" THEN r.statusText
                       ELSE "Request failed"
             /\ ~r.ok =>
                  /\ ~alerts'.failure.hidden
                  /\ alerts'.success.hidden]_vars

\* C8 witness: a non-success response with no usable message and no reason
\* phrase has been turned into "Request failed", failure banner showing.
C8_Witness ==
    /\ Len(reqs) = 1
    /\ reqs[1].result = "http"
    /\ console = Error("Request failed")
    /\ ~alerts.failure.hidden
    /\ alerts.success.hidden

\* the request of the current run fails validation
RunInvalid ==
    \/ hreq.kind # "json"
    \/ Len(Trimmed(hreq.name)) < 2
    \/ ~EmailShape(Trimmed(hreq.email))
    \/ Len(Trimmed(hreq.message)) < 10

\* C9: the handler validates, then writes, then notifies: a run whose request
\* fails validation answers 4xx without a store write or an email; a run
\* whose store write fails answers 5xx with no record and no email; every
\* notification attempt follows the successful write of its record.
C9_ValidateWriteNotify ==
    /\ []((hpc # "idle" /\ RunInvalid) =>
            /\ hpc = "responded"
            /\ hrun.status \in 400..499
            /\ ~hrun.wrote
            /\ hrun.mails = 0)
    /\ [](hrun.storeFailed =>
            /\ hrun.status \in 500..599
            /\ hrun.mails = 0
            /\ \A rec \in store : rec.id # hrun.id)
    /\ [](\A k \in DOMAIN mail : \E rec \in store : rec.id = mail[k].id)
    /\ [][ /\ store' # store => (~RunInvalid /\ hrun.mails = 0)
           /\ mail' # mail => (hrun.wrote /\ ~hrun.storeFailed)
           /\ (hpc' = "responded" /\ hpc # "responded"
               /\ hrun'.status \notin 200..299)
                => (store' = store /\ mail' = mail) ]_vars

\* C9 witness: a first run stored its record and attempted both emails, a
\* second run lost its store write and answered 500.
C9_Witness ==
    /\ nRuns = 2
    /\ Len(mail) = 2
    /\ Cardinality(store) = 1
    /\ hrun.storeFailed
    /\ hrun.status = 500

\* C10: at most one lead POST is in flight at any time, and the button is
\* enabled only when none is.
C10_OneInFlight ==
    /\ Cardinality({ i \in DOMAIN reqs : InFlight(i) }) <= 1
    /\ ~btn.disabled => ~AnyInFlight

\* C10 witness: a second request is in flight, after the first one settled.
C10_Witness ==
    /\ Len(reqs) = 2
    /\ ~InFlight(1)
    /\ InFlight(2)
    /\ btn.disabled

====
